---- MODULE Spec2Model ----
(***************************************************************************)
(* The webcam gesture pipeline of AlphaView:                               *)
(*   components/GestureController.tsx  (interpreter and capture lifecycle) *)
(*   pages/explorer.tsx handleGesture  (bridge to the viewer's camera API) *)
(*   pages/explorer.tsx useEffect      (resolve-and-fetch of a protein)    *)
(*                                                                         *)
(* Units.  Landmark coordinates are normalised floats in the source; here  *)
(* one coordinate unit is 0.0001, so 0.07 is 700.  The smoothed velocity   *)
(* is kept in thousandths of a coordinate unit (1e-7) and rotate / pan     *)
(* payloads in 1e-8, so that ALPHA = 0.4, GAIN = 15 and the pan factor 1.5 *)
(* are integer arithmetic.  Times are milliseconds counted from Epoch,     *)
(* which stands for the value of Date.now() when the component is built.   *)
(***************************************************************************)
EXTENDS Integers, Sequences, FiniteSets, TLC

VARIABLES
    \* ---- React state of GestureController (lines 12-16)
    handLandmarker,   \* FALSE = null, TRUE = the initialised landmarker
    cameraActive,
    loading,
    status,           \* "IDLE" | "DETECTING" | "NOT_FOUND"
    activeGesture,    \* "" = null, else the label
    \* ---- refs (lines 19-25)
    lastLandmark,     \* Null or <<x, y>>
    smoothedPos,      \* <<x, y>>
    lastPinchDist,    \* Null or <<d>>
    requestRef,       \* 0 or the id of the last requestAnimationFrame
    isTapped,
    lastClickTime,
    lastResetTime,
    \* ---- environment: component, browser, camera
    mounted,          \* the component is mounted (videoRef.current is set)
    initDone,         \* initMediaPipe has settled
    pendingGUM,       \* getUserMedia promises still in flight
    streams,          \* sequence over acquired MediaStreams: TRUE = tracks live
    srcObject,        \* 0 or the index in streams of video.srcObject
    metadataPending,  \* a loadedmetadata event is due for srcObject
    pendingFrames,    \* ids of scheduled, not yet run, animation frame callbacks
    nextId,           \* next id requestAnimationFrame returns
    now,              \* Date.now()
    \* ---- what the last step did
    step,             \* name of the last handler that ran
    emitted,          \* calls of onGesture made by the last step, in order
    sinkCalls,        \* viewer methods invoked by the last step, in order
    errors,           \* number of console.error reports so far
    \* ---- history, for the properties only
    clickAt,          \* time of the last Click emitted, None if there was none
    resetAt,          \* time of the last Reset emitted, None if there was none
    resetGap,         \* time between the last two Resets, None if fewer than two
    seg,              \* the pinch observed since the hand was last seen open
    frame,            \* the last frame processed: readiness, hands, and the
                      \* lastLandmark it started from
    \* ---- React state of the Explorer page (explorer.tsx lines 29-43)
    input,            \* "" or the protein asked for
    metaLoading,
    pdbLoading,
    error,            \* Null or << message >>
    pdbData,          \* Null or << structure text >>
    resolvedId,       \* Null or << id >>
    metadata,         \* Null or << metadata >>
    \* ---- environment of the page
    cache,            \* localStorage: the set of cached keys
    runs              \* the calls of resolveAndFetch so far, in order

controller == << handLandmarker, cameraActive, loading, status, activeGesture,
           lastLandmark, smoothedPos, lastPinchDist, requestRef, isTapped,
           lastClickTime, lastResetTime, mounted, initDone, pendingGUM,
           streams, srcObject, metadataPending, pendingFrames, nextId, now,
           step, emitted, sinkCalls, errors, clickAt, resetAt, resetGap, seg,
           frame >>

explorer == << input, metaLoading, pdbLoading, error, pdbData, resolvedId,
               metadata, cache, runs >>

vars == << controller, explorer >>

interp == << lastLandmark, smoothedPos, lastPinchDist, isTapped,
             lastClickTime, lastResetTime >>

history == << clickAt, resetAt, resetGap, seg, frame >>

lifecycle == << handLandmarker, cameraActive, loading, mounted, initDone,
                pendingGUM, streams, srcObject, metadataPending >>

-----------------------------------------------------------------------------
(* Bounds of the model *)

MaxReq == 5        \* animation frame ids handed out in one run
MaxStarts == 2     \* getUserMedia requests made in one run
MaxClickReq == 7   \* animation frame ids in the pinch specification
MaxSmoothReq == 5  \* animation frame ids in the smoothing specification
MaxShift == 6      \* positions of the hand in the smoothing specification
MaxOrderReq == 4   \* animation frame ids in the rule order specification
MaxAxisReq == 4    \* animation frame ids in the per-axis specification
MaxPinchReq == 5   \* animation frame ids in the two-hand specification
MaxInputs == 3     \* changes of the Explorer input in one run
MaxFingerReq == 4  \* animation frame ids in the finger specification

Epoch == 100 * 1000

(* Hyperparameters, GestureController.tsx lines 28-32 and inline literals *)

ALPHA_TENTHS == 4          \* ALPHA = 0.4
GAIN == 15
DEADZONE == 30             \* 0.003
CLICK_THRESHOLD == 700     \* 0.07
CLICK_RELEASE == 1000      \* 0.10
CLICK_LOCKOUT == 400       \* ms
RESET_COOLDOWN == 2000     \* ms
ZOOM_GAIN == 20
ZOOM_MIN == 50             \* 0.005
EXT_MARGIN_TENTHS == 11    \* 1.1
PAN_TENTHS == 15           \* 1.5

Null == <<>>
None == 0 - 1

-----------------------------------------------------------------------------
(* Arithmetic helpers *)

Abs(n) == IF n < 0 THEN 0 - n ELSE n

Sq(n) == n * n

\* squared Euclidean distance of two points
Dist2(p, q) == Sq(p[1] - q[1]) + Sq(p[2] - q[2])

RECURSIVE ISqrtFrom(_, _, _)
ISqrtFrom(q, lo, hi) ==
    IF lo >= hi THEN lo
    ELSE LET mid == (lo + hi + 1) \div 2
         IN  IF mid * mid <= q THEN ISqrtFrom(q, mid, hi)
             ELSE ISqrtFrom(q, lo, mid - 1)

\* Math.hypot, to one coordinate unit (rounded down)
hypot(dx, dy) == ISqrtFrom(Sq(dx) + Sq(dy), 0, 20000)

-----------------------------------------------------------------------------
(* Landmark frames.  A hand is a function from the landmark indices the    *)
(* controller reads to points.                                             *)

WRIST == 0
LM == {0, 4, 7, 8, 11, 12, 15, 16, 19, 20}

Fingers == {"index", "middle", "ring", "pinky"}

\* A hand with wrist at (5000, 8000) + off, the fingers of ext stretched
\* (last knuckle well below the tip) and the others curled (last knuckle
\* almost as far from the wrist as the tip), the thumb tip gap units to the
\* side of the index tip.
MakeHand(ext, gap, off) ==
    LET wx == 5000 + off[1]
        wy == 8000 + off[2]
        ty == wy - 2600
        dy(f) == IF f \in ext THEN wy - 2000 ELSE wy - 2500
    IN  (0 :> << wx, wy >>) @@ (4 :> << wx - 300 - gap, ty >>)
        @@ (7 :> << wx - 300, dy("index") >>) @@ (8 :> << wx - 300, ty >>)
        @@ (11 :> << wx - 100, dy("middle") >>) @@ (12 :> << wx - 100, ty >>)
        @@ (15 :> << wx + 100, dy("ring") >>) @@ (16 :> << wx + 100, ty >>)
        @@ (19 :> << wx + 300, dy("pinky") >>) @@ (20 :> << wx + 300, ty >>)

-----------------------------------------------------------------------------
(* Pure parts of processFrame *)

\* the comparison of line 112 with its boundary included
isExtendedInclusive(landmarks, tipIdx, dipIdx) ==
    LET wrist == landmarks[WRIST]
        dTip2 == Dist2(landmarks[tipIdx], wrist)
        dDip2 == Dist2(landmarks[dipIdx], wrist)
    IN  Sq(10) * dTip2 >= Sq(EXT_MARGIN_TENTHS) * dDip2

\* isExtended (lines 103-113): dTip > dDip * 1.1, compared on the squares
isExtended(landmarks, tipIdx, dipIdx) ==
    LET wrist == landmarks[WRIST]
        dTip2 == Dist2(landmarks[tipIdx], wrist)
        dDip2 == Dist2(landmarks[dipIdx], wrist)
    IN  Sq(10) * dTip2 > Sq(EXT_MARGIN_TENTHS) * dDip2

indexOut(lms) == isExtended(lms, 8, 7)
middleOut(lms) == isExtended(lms, 12, 11)
ringOut(lms) == isExtended(lms, 16, 15)
pinkyOut(lms) == isExtended(lms, 20, 19)

isPalm(lms) == indexOut(lms) /\ middleOut(lms) /\ ringOut(lms) /\ pinkyOut(lms)

\* tapDist < CLICK_THRESHOLD and tapDist > CLICK_RELEASE (lines 121, 137, 144)
tapEngaged(lms) == Dist2(lms[8], lms[4]) < Sq(CLICK_THRESHOLD)
tapReleased(lms) == Dist2(lms[8], lms[4]) > Sq(CLICK_RELEASE)

\* lines 129-130
Deadzone(d) == IF Abs(d) < DEADZONE THEN 0 ELSE d

\* the new displacement added to the old velocity at full weight
SmoothAdd(d, s) == (ALPHA_TENTHS * d * 1000 + 10 * s) \div 10

\* lines 133-134: ALPHA * d + (1 - ALPHA) * s, s in thousandths of a unit;
\* the float result is kept to 1e-7, rounded down
Smooth(d, s) == (ALPHA_TENTHS * d * 1000 + (10 - ALPHA_TENTHS) * s) \div 10

\* the lockout with its boundary included
clickLockedInclusive(t, clickTime) == t - clickTime <= CLICK_LOCKOUT

\* line 150
clickLocked(t, clickTime) == t - clickTime < CLICK_LOCKOUT

\* the debounce with a digit of the cooldown dropped
resetDueShort(t, resetTime) == t - resetTime > RESET_COOLDOWN \div 10

\* line 153
resetDue(t, resetTime) == t - resetTime > RESET_COOLDOWN

\* the difference taken the wrong way round
zoomDeltaSwapped(dist, last) == (last - dist) * ZOOM_GAIN

\* line 168
zoomDelta(dist, last) == (dist - last) * ZOOM_GAIN

\* lines 176-179 and 182-185, payloads in 1e-8
panData(s) == [x |-> (0 - s[1]) * GAIN * PAN_TENTHS, y |-> s[2] * GAIN * PAN_TENTHS]
rotateData(s) == [x |-> (0 - s[1]) * GAIN * 10, y |-> s[2] * GAIN * 10]

Ev(type, data) == [type |-> type, data |-> data]

-----------------------------------------------------------------------------
(* explorer.tsx handleGesture (lines 235-242).  A JavaScript number n is   *)
(* <<n>> and undefined is <<>>.  viewer says whether viewerRef.current is  *)
(* set.  The result is the sequence of viewer methods invoked.             *)

Undefined == <<>>
Num(n) == << n >>
Call(method, args) == [method |-> method, args |-> args]

\* data.distance where data is the number onGesture('zoom', delta) passes:
\* a number has no such property
distanceOf(data) == Undefined

handleGesture(viewer, type, data) ==
    IF ~viewer THEN <<>>
    ELSE CASE type = "rotate" -> << Call("rotate", << Num(data.x), Num(data.y) >>) >>
           [] type = "pan" -> << Call("pan", << Num(data.x), Num(data.y) >>) >>
           [] type = "zoom" ->
                 IF data # 0 THEN << Call("zoom", << distanceOf(data) >>) >> ELSE <<>>
           [] type = "reset" -> << Call("reset", <<>>) >>
           [] type = "click" -> << Call("pick", << Num(data.x), Num(data.y) >>) >>
           [] OTHER -> <<>>

RECURSIVE bridge(_, _)
bridge(viewer, evs) ==
    IF evs = <<>> THEN <<>>
    ELSE handleGesture(viewer, Head(evs).type, Head(evs).data) \o bridge(viewer, Tail(evs))

-----------------------------------------------------------------------------
(* processFrame, the part between detectForVideo and the reschedule        *)
(* (lines 91-213), as a function of the interpreter state st, the detected *)
(* hands results and the clock reading t.  st.emitted collects the calls   *)
(* of onGesture in order, and st.threw says that a TypeError left the step  *)
(* at that point.                                                          *)

InterpState ==
    [ lastLandmark |-> lastLandmark, smoothedPos |-> smoothedPos,
      lastPinchDist |-> lastPinchDist, isTapped |-> isTapped,
      lastClickTime |-> lastClickTime, lastResetTime |-> lastResetTime,
      status |-> status, activeGesture |-> activeGesture, emitted |-> <<>>,
      threw |-> FALSE ]

\* the no-hands branch without the two ref assignments
noHandsKeepRefs(st) == [ st EXCEPT !.status = "NOT_FOUND", !.activeGesture = "" ]

\* a no-hands branch that lets the smoothed velocity die away while the hand
\* is lost
noHandsDecay(st) ==
    [ st EXCEPT !.status = "NOT_FOUND", !.activeGesture = "",
                !.lastLandmark = Null, !.lastPinchDist = Null,
                !.smoothedPos = << @[1] \div 2, @[2] \div 2 >> ]

\* lines 208-213
noHands(st) ==
    [ st EXCEPT !.status = "NOT_FOUND", !.activeGesture = "",
                !.lastLandmark = Null, !.lastPinchDist = Null ]

\* lines 136-146, Click Logic
clickLogic(st, lms, t) ==
    IF tapEngaged(lms)
    THEN IF ~st.isTapped
         THEN [ st EXCEPT !.activeGesture = "CLICK",
                          !.emitted = Append(@, Ev("click", [x |-> lms[8][1], y |-> lms[8][2]])),
                          !.isTapped = TRUE,
                          !.lastClickTime = t ]
         ELSE [ st EXCEPT !.activeGesture = "CLICK" ]
    ELSE IF tapReleased(lms)
         THEN [ st EXCEPT !.isTapped = FALSE ]
         ELSE st

\* Pinch Zoom that keeps the old distance when it emits nothing
pinchZoomOnFire(st, results) ==
    LET h1 == results[1][8]
        h2 == results[2][8]
        dist == hypot(h1[1] - h2[1], h1[2] - h2[2])
        delta == zoomDelta(dist, st.lastPinchDist[1])
        fire == st.lastPinchDist # Null /\ Abs(delta) > ZOOM_MIN
    IN  IF h2 = Null
        THEN [ st EXCEPT !.activeGesture = "ZOOMING", !.threw = TRUE ]
        ELSE [ st EXCEPT !.activeGesture = "ZOOMING",
                         !.emitted = IF fire THEN Append(@, Ev("zoom", delta)) ELSE @,
                         !.lastPinchDist = IF fire \/ @ = Null THEN << dist >> ELSE @ ]

\* lines 160-173, Pinch Zoom; h2.x throws when the second hand has no
\* landmark 8
pinchZoom(st, results) ==
    LET h1 == results[1][8]
        h2 == results[2][8]
        dist == hypot(h1[1] - h2[1], h1[2] - h2[2])
        delta == zoomDelta(dist, st.lastPinchDist[1])
        fire == st.lastPinchDist # Null /\ Abs(delta) > ZOOM_MIN
    IN  IF h2 = Null
        THEN [ st EXCEPT !.activeGesture = "ZOOMING", !.threw = TRUE ]
        ELSE [ st EXCEPT !.activeGesture = "ZOOMING",
                         !.emitted = IF fire THEN Append(@, Ev("zoom", delta)) ELSE @,
                         !.lastPinchDist = << dist >> ]

\* the decision tree with the lockout tested before the palm
decisionTreeLockFirst(st, results, t) ==
    LET lms == results[1]
    IN  IF clickLocked(t, st.lastClickTime)
        THEN st
        ELSE IF isPalm(lms)
        THEN IF resetDue(t, st.lastResetTime)
             THEN [ st EXCEPT !.activeGesture = "RESET VIEW",
                              !.emitted = Append(@, Ev("reset", Null)),
                              !.lastResetTime = t ]
             ELSE st
        ELSE IF Len(results) = 2
        THEN pinchZoom(st, results)
        ELSE IF middleOut(lms) /\ indexOut(lms) /\ ~ringOut(lms)
        THEN [ st EXCEPT !.activeGesture = "PANNING",
                         !.emitted = Append(@, Ev("pan", panData(st.smoothedPos))) ]
        ELSE IF indexOut(lms) /\ ~middleOut(lms)
        THEN [ st EXCEPT !.activeGesture = "ROTATING",
                         !.emitted = Append(@, Ev("rotate", rotateData(st.smoothedPos))) ]
        ELSE st

\* lines 148-186, Unified Decision Tree
decisionTree(st, results, t) ==
    LET lms == results[1]
    IN  IF isPalm(lms)
        THEN IF resetDue(t, st.lastResetTime)
             THEN [ st EXCEPT !.activeGesture = "RESET VIEW",
                              !.emitted = Append(@, Ev("reset", Null)),
                              !.lastResetTime = t ]
             ELSE st
        ELSE IF clickLocked(t, st.lastClickTime)
        THEN st
        ELSE IF Len(results) = 2
        THEN pinchZoom(st, results)
        ELSE IF middleOut(lms) /\ indexOut(lms) /\ ~ringOut(lms)
        THEN [ st EXCEPT !.activeGesture = "PANNING",
                         !.emitted = Append(@, Ev("pan", panData(st.smoothedPos))) ]
        ELSE IF indexOut(lms) /\ ~middleOut(lms)
        THEN [ st EXCEPT !.activeGesture = "ROTATING",
                         !.emitted = Append(@, Ev("rotate", rotateData(st.smoothedPos))) ]
        ELSE st

\* a deadzone on the pair: both axes cleared only when both are small
smoothingCoupled(st, lms) ==
    LET rx == lms[8][1] - st.lastLandmark[1]
        ry == lms[8][2] - st.lastLandmark[2]
        small == Abs(rx) < DEADZONE /\ Abs(ry) < DEADZONE
        dx == IF small THEN 0 ELSE rx
        dy == IF small THEN 0 ELSE ry
    IN  [ st EXCEPT !.smoothedPos = << Smooth(dx, @[1]), Smooth(dy, @[2]) >> ]

\* lines 124-134, Landmark 8 tracking with stabilization
smoothing(st, lms) ==
    LET dx == Deadzone(lms[8][1] - st.lastLandmark[1])
        dy == Deadzone(lms[8][2] - st.lastLandmark[2])
    IN  [ st EXCEPT !.smoothedPos = << Smooth(dx, @[1]), Smooth(dy, @[2]) >> ]

\* every landmark the first hand is read at is present; otherwise tip.x,
\* dip.x, wrist.x (lines 108-109) or thumbTip.x (line 121) throws
Complete(lms) == \A i \in LM : lms[i] # Null

\* lines 91-191
withHands(st, results, t) ==
    LET lms == results[1]
        s0 == [ st EXCEPT !.status = "DETECTING" ]
        s1 == IF s0.lastLandmark # Null
              THEN decisionTree(clickLogic(smoothing(s0, lms), lms, t), results, t)
              ELSE [ s0 EXCEPT !.lastPinchDist = Null ]
    IN  IF ~Complete(lms) THEN [ s0 EXCEPT !.threw = TRUE ]
        ELSE IF s1.threw THEN s1
        ELSE [ s1 EXCEPT !.lastLandmark = lms[8] ]

\* lines 84-215; ready is video.readyState >= 2
frameStep(st, ready, results, t) ==
    IF ~ready THEN st
    ELSE IF Len(results) > 0 THEN withHands(st, results, t)
    ELSE noHands(st)

-----------------------------------------------------------------------------
(* History *)

Count(evs, type) == Cardinality({ i \in 1..Len(evs) : evs[i].type = type })

\* The pinch seen since the hand was last seen open (thumb and index further
\* apart than CLICK_RELEASE): "up" open, "down" closed below CLICK_THRESHOLD
\* once and not yet reopened, "back" reopened; clicks counts the Clicks
\* emitted since the hand was seen open.
segNext(ready, results, evs) ==
    IF ~ready THEN seg
    ELSE IF Len(results) > 0 /\ ~Complete(results[1]) THEN seg
    ELSE IF Len(results) = 0 THEN [phase |-> "none", clicks |-> 0]
    ELSE LET lms == results[1]
             n == Count(evs, "click")
         IN  IF seg.phase = "down"
             THEN [phase |-> IF tapReleased(lms) THEN "back" ELSE "down",
                   clicks |-> seg.clicks + n]
             ELSE IF tapReleased(lms) THEN [phase |-> "up", clicks |-> 0]
             ELSE IF seg.phase = "up"
                  THEN IF tapEngaged(lms) THEN [phase |-> "down", clicks |-> n]
                       ELSE seg
             ELSE [phase |-> "none", clicks |-> 0]

-----------------------------------------------------------------------------
(* Steps *)

Quiet(name) ==
    /\ step' = name
    /\ emitted' = <<>>
    /\ sinkCalls' = <<>>

\* initMediaPipe resolves (lines 37-60)
initMediaPipe ==
    /\ ~initDone
    /\ initDone' = TRUE
    /\ handLandmarker' = (IF mounted THEN TRUE ELSE handLandmarker)
    /\ loading' = (IF mounted THEN FALSE ELSE loading)
    /\ Quiet("initMediaPipe")
    /\ UNCHANGED << cameraActive, status, activeGesture, interp, requestRef, mounted,
                    pendingGUM, streams, srcObject, metadataPending, pendingFrames,
                    nextId, now, errors, history >>
    /\ UNCHANGED explorer

\* initMediaPipe throws (lines 61-64)
initMediaPipeFailed ==
    /\ ~initDone
    /\ initDone' = TRUE
    /\ errors' = errors + 1
    /\ loading' = (IF mounted THEN FALSE ELSE loading)
    /\ Quiet("initMediaPipeFailed")
    /\ UNCHANGED << handLandmarker, cameraActive, status, activeGesture, interp,
                    requestRef, mounted, pendingGUM, streams, srcObject,
                    metadataPending, pendingFrames, nextId, now, history >>
    /\ UNCHANGED explorer

\* the effect's cleanup (lines 69-73)
unmount ==
    /\ mounted
    /\ mounted' = FALSE
    /\ pendingFrames' = pendingFrames \ {requestRef}
    /\ Quiet("unmount")
    /\ UNCHANGED << handLandmarker, cameraActive, loading, status, activeGesture,
                    interp, requestRef, initDone, pendingGUM, streams, srcObject,
                    metadataPending, nextId, now, errors, history >>
    /\ UNCHANGED explorer

\* the tracks of video.srcObject are stopped (lines 225-227)
stopTracks(ss, src) == IF src # 0 THEN [ss EXCEPT ![src] = FALSE] ELSE ss

\* toggleCamera without the early return of line 221
toggleCameraUnguarded ==
    /\ mounted
    /\ ~loading
    /\ step' = "toggleCamera"
    /\ IF cameraActive
       THEN /\ pendingFrames' = pendingFrames \ {requestRef}
            /\ streams' = stopTracks(streams, srcObject)
            /\ cameraActive' = FALSE
            /\ emitted' = << Ev("null", Null) >>
            /\ \E viewer \in BOOLEAN : sinkCalls' = bridge(viewer, << Ev("null", Null) >>)
            /\ status' = "IDLE"
            /\ UNCHANGED pendingGUM
       ELSE /\ Len(streams) + pendingGUM + errors < MaxStarts
            /\ pendingGUM' = pendingGUM + 1
            /\ emitted' = <<>>
            /\ sinkCalls' = <<>>
            /\ UNCHANGED << cameraActive, status, streams, pendingFrames >>
    /\ UNCHANGED << handLandmarker, loading, activeGesture, interp, requestRef, mounted,
                    initDone, srcObject, metadataPending, nextId, now, errors, history >>
    /\ UNCHANGED explorer

\* toggleCamera up to its await (lines 220-235); the button is disabled
\* while loading (line 282)
toggleCamera ==
    /\ mounted
    /\ ~loading
    /\ step' = "toggleCamera"
    /\ IF ~handLandmarker
       THEN /\ emitted' = <<>>
            /\ sinkCalls' = <<>>
            /\ UNCHANGED << cameraActive, status, pendingGUM, streams, pendingFrames >>
       ELSE IF cameraActive
       THEN /\ pendingFrames' = pendingFrames \ {requestRef}
            /\ streams' = stopTracks(streams, srcObject)
            /\ cameraActive' = FALSE
            /\ emitted' = << Ev("null", Null) >>
            /\ \E viewer \in BOOLEAN : sinkCalls' = bridge(viewer, << Ev("null", Null) >>)
            /\ status' = "IDLE"
            /\ UNCHANGED pendingGUM
       ELSE /\ Len(streams) + pendingGUM + errors < MaxStarts
            /\ pendingGUM' = pendingGUM + 1
            /\ emitted' = <<>>
            /\ sinkCalls' = <<>>
            /\ UNCHANGED << cameraActive, status, streams, pendingFrames >>
    /\ UNCHANGED << handLandmarker, loading, activeGesture, interp, requestRef, mounted,
                    initDone, srcObject, metadataPending, nextId, now, errors, history >>
    /\ UNCHANGED explorer

\* getUserMedia resolves and toggleCamera continues (lines 235-245)
getUserMediaResolved ==
    /\ pendingGUM > 0
    /\ pendingGUM' = pendingGUM - 1
    /\ streams' = Append(streams, TRUE)
    /\ srcObject' = (IF mounted THEN Len(streams) + 1 ELSE srcObject)
    /\ metadataPending' = (IF mounted THEN TRUE ELSE metadataPending)
    /\ Quiet("getUserMediaResolved")
    /\ UNCHANGED << handLandmarker, cameraActive, loading, status, activeGesture,
                    interp, requestRef, mounted, initDone, pendingFrames, nextId, now,
                    errors, history >>
    /\ UNCHANGED explorer

\* a catch block that swallows the rejection without console.error
getUserMediaRejectedSilent ==
    /\ pendingGUM > 0
    /\ pendingGUM' = pendingGUM - 1
    /\ Quiet("getUserMediaRejected")
    /\ UNCHANGED << handLandmarker, cameraActive, loading, status, activeGesture,
                    interp, requestRef, mounted, initDone, streams, srcObject,
                    metadataPending, pendingFrames, nextId, now, errors, history >>
    /\ UNCHANGED explorer

\* getUserMedia rejects (lines 246-248)
getUserMediaRejected ==
    /\ pendingGUM > 0
    /\ pendingGUM' = pendingGUM - 1
    /\ errors' = errors + 1
    /\ Quiet("getUserMediaRejected")
    /\ UNCHANGED << handLandmarker, cameraActive, loading, status, activeGesture,
                    interp, requestRef, mounted, initDone, streams, srcObject,
                    metadataPending, pendingFrames, nextId, now, history >>
    /\ UNCHANGED explorer

\* video.onloadedmetadata (lines 240-244); the event is delivered for the
\* current srcObject while its tracks are live, and the handler runs whether
\* or not the component is still mounted (videoRef.current?.play())
onloadedmetadata ==
    /\ metadataPending
    /\ srcObject # 0
    /\ streams[srcObject]
    /\ nextId <= MaxReq
    /\ metadataPending' = FALSE
    /\ cameraActive' = (IF mounted THEN TRUE ELSE cameraActive)
    /\ requestRef' = nextId
    /\ pendingFrames' = pendingFrames \cup {nextId}
    /\ nextId' = nextId + 1
    /\ Quiet("onloadedmetadata")
    /\ UNCHANGED << handLandmarker, loading, status, activeGesture, interp, mounted,
                    initDone, pendingGUM, streams, srcObject, now, errors, history >>
    /\ UNCHANGED explorer

\* an animation frame callback runs processFrame (lines 76-218) with the
\* component mounted; dt is the time since the clock was last read.  A step
\* that throws does not reach the requestAnimationFrame of line 217.
processFrame(id, ready, results, dt, viewer, limit) ==
    /\ id \in pendingFrames
    /\ mounted
    /\ nextId <= limit
    /\ now' = now + dt
    /\ \E st \in { frameStep(InterpState, ready, results, now + dt) } :
       LET clicked == Count(st.emitted, "click") > 0
           reset == Count(st.emitted, "reset") > 0
       IN  /\ lastLandmark' = st.lastLandmark
           /\ smoothedPos' = st.smoothedPos
           /\ lastPinchDist' = st.lastPinchDist
           /\ isTapped' = st.isTapped
           /\ lastClickTime' = st.lastClickTime
           /\ lastResetTime' = st.lastResetTime
           /\ status' = st.status
           /\ activeGesture' = st.activeGesture
           /\ emitted' = st.emitted
           /\ sinkCalls' = bridge(viewer, st.emitted)
           /\ clickAt' = (IF clicked THEN now + dt ELSE clickAt)
           /\ resetAt' = (IF reset THEN now + dt ELSE resetAt)
           /\ resetGap' = (IF reset /\ resetAt # None THEN now + dt - resetAt ELSE resetGap)
           /\ seg' = segNext(ready, results, st.emitted)
           /\ frame' = [ready |-> ready, results |-> results, prev |-> lastLandmark]
           /\ IF st.threw
              THEN /\ pendingFrames' = pendingFrames \ {id}
                   /\ step' = "processFrameThrew"
                   /\ UNCHANGED << requestRef, nextId >>
              ELSE /\ requestRef' = nextId
                   /\ pendingFrames' = (pendingFrames \ {id}) \cup {nextId}
                   /\ nextId' = nextId + 1
                   /\ step' = "processFrame"
    /\ UNCHANGED << lifecycle, errors >>
    /\ UNCHANGED explorer

\* an animation frame callback runs after unmount: videoRef.current is null
\* and processFrame returns at line 77
processFrameDetached(id) ==
    /\ id \in pendingFrames
    /\ ~mounted
    /\ pendingFrames' = pendingFrames \ {id}
    /\ Quiet("processFrameDetached")
    /\ UNCHANGED << lifecycle, status, activeGesture, interp, requestRef, nextId, now,
                    errors, history >>
    /\ UNCHANGED explorer

-----------------------------------------------------------------------------
(* explorer.tsx, the effect on [input] (lines 63-233).  Every change of    *)
(* input starts a call of resolveAndFetch; the effect has no cleanup and   *)
(* the call takes no abort signal, so earlier calls keep running.  A call  *)
(* is a record of runs: its input, where it is waiting (pc), the id it     *)
(* fetches, its fetchedMeta, and in shown what the call itself has stored  *)
(* in the page state since its own reset (kept for the properties).        *)
(* fetchWithRetry is taken with its final outcome.  The values shown are   *)
(* tagged with the id they belong to.                                      *)

\* an accession and a protein name
Proteins == { "P69905", "insulin" }

\* toUpperCase().trim() (line 106)
Upper(x) == IF x = "insulin" THEN "INSULIN" ELSE x

\* the test of line 133
isUniprotId(id) == id = "P69905"

\* results[0].primaryAccession of the UniProt search (line 149)
primaryAccession(query) == "P01308"

Blank == [pdbData |-> Null, metadata |-> Null, resolvedId |-> Null, error |-> Null]

ExplorerInit ==
    /\ input = ""
    /\ metaLoading = FALSE
    /\ pdbLoading = FALSE
    /\ error = Null
    /\ pdbData = Null
    /\ resolvedId = Null
    /\ metadata = Null
    /\ cache = {}
    /\ runs = <<>>

\* setInput(v) and the effect it triggers: resolveAndFetch up to its first
\* await (lines 88-139 and 159-163); fresh says whether a cached entry is
\* younger than 24 hours
setInput(v, fresh) ==
    /\ v # input
    /\ Len(runs) < MaxInputs
    /\ input' = v
    /\ LET id == Upper(v)
           hit == { c \in cache : c.key = id }
       IN  IF hit # {} /\ fresh
           THEN \E c \in hit :
                  /\ metadata' = c.meta
                  /\ pdbData' = c.pdb
                  /\ resolvedId' = << id >>
                  /\ error' = Null
                  /\ metaLoading' = FALSE
                  /\ pdbLoading' = FALSE
                  /\ runs' = Append(runs, [ input |-> v, pc |-> "done", id |-> id,
                                            meta |-> Null,
                                            shown |-> [ Blank EXCEPT !.metadata = c.meta,
                                                                     !.pdbData = c.pdb,
                                                                     !.resolvedId = << id >> ] ])
           ELSE /\ metadata' = Null
                /\ pdbData' = Null
                /\ error' = Null
                /\ metaLoading' = TRUE
                /\ pdbLoading' = TRUE
                /\ IF isUniprotId(id)
                   THEN /\ resolvedId' = << id >>
                        /\ runs' = Append(runs, [ input |-> v, pc |-> "meta", id |-> id,
                                                  meta |-> Null,
                                                  shown |-> [ Blank EXCEPT !.resolvedId = << id >> ] ])
                   ELSE /\ resolvedId' = Null
                        /\ runs' = Append(runs, [ input |-> v, pc |-> "search", id |-> id,
                                                  meta |-> Null, shown |-> Blank ])
    /\ UNCHANGED << cache, controller >>

\* the catch and finally of lines 216-229, and the returns of lines 140-155
\* (the finally runs on them too): the call i ends with message msg
failRun(i, msg) ==
    /\ error' = << msg >>
    /\ metaLoading' = FALSE
    /\ pdbLoading' = FALSE
    /\ runs' = [ runs EXCEPT ![i].pc = "done", ![i].shown.error = << msg >> ]

\* the UniProt search of call i settles (lines 135-156)
searchDone(i, outcome) ==
    /\ runs[i].pc = "search"
    /\ IF outcome = "found"
       THEN /\ resolvedId' = << primaryAccession(runs[i].id) >>
            /\ runs' = [ runs EXCEPT ![i].pc = "meta",
                                      ![i].id = primaryAccession(runs[i].id),
                                      ![i].shown.resolvedId = << primaryAccession(runs[i].id) >> ]
            /\ UNCHANGED << error, metaLoading, pdbLoading >>
       ELSE /\ failRun(i, outcome)
            /\ UNCHANGED resolvedId
    /\ UNCHANGED << input, pdbData, metadata, cache, controller >>

\* the metadata fetch of call i settles (lines 161-181)
metaDone(i, outcome) ==
    /\ runs[i].pc = "meta"
    /\ IF outcome = "threw"
       THEN /\ failRun(i, outcome)
            /\ UNCHANGED metadata
       ELSE /\ metadata' = (IF outcome = "ok" THEN << runs[i].id >> ELSE metadata)
            /\ metaLoading' = FALSE
            /\ runs' = [ runs EXCEPT ![i].pc = "pdb",
                                      ![i].meta = IF outcome = "ok" THEN << runs[i].id >> ELSE Null,
                                      ![i].shown.metadata =
                                          IF outcome = "ok" THEN << runs[i].id >> ELSE @ ]
            /\ UNCHANGED << error, pdbLoading >>
    /\ UNCHANGED << input, pdbData, resolvedId, cache, controller >>

\* the structure fetch of call i settles (lines 183-229; the AlphaFold API
\* request before it only chooses the URL and swallows its errors)
pdbDone(i, outcome) ==
    /\ runs[i].pc = "pdb"
    /\ IF outcome = "ok"
       THEN /\ pdbData' = << runs[i].id >>
            /\ cache' = { c \in cache : c.key # Upper(runs[i].input) }
                          \cup { [ key |-> Upper(runs[i].input), pdb |-> << runs[i].id >>,
                                   meta |-> runs[i].meta ] }
            /\ metaLoading' = FALSE
            /\ pdbLoading' = FALSE
            /\ runs' = [ runs EXCEPT ![i].pc = "done", ![i].shown.pdbData = << runs[i].id >> ]
            /\ UNCHANGED error
       ELSE /\ failRun(i, outcome)
            /\ UNCHANGED << pdbData, cache >>
    /\ UNCHANGED << input, resolvedId, metadata, controller >>

-----------------------------------------------------------------------------
(* Inputs *)

Point == {"index"}
Peace == {"index", "middle"}
Palm == Fingers

Open == CLICK_RELEASE + 200        \* thumb to index gap above CLICK_RELEASE
Between == CLICK_THRESHOLD + 100   \* between the two thresholds
Pinched == CLICK_THRESHOLD - 300   \* below CLICK_THRESHOLD

Still == << 0, 0 >>
Nudged == << 20, 0 >>          \* inside the deadzone
Moved == << 500, 0 - 250 >>

\* the second hand is only read at its index tip (line 164)
Second(dx) == MakeHand(Point, Open, << 0 - dx, 0 >>)

\* what detectForVideo returns in the lifecycle specification
LifeResults ==
    { <<>>, << MakeHand(Point, Open, Still) >>, << MakeHand(Point, Pinched, Moved) >> }

LifeSteps == { 400 }

\* what detectForVideo returns in the interpreter specification
OneHand ==
    { << MakeHand(ext, gap, off) >> :
        ext \in { {}, Point, Peace, Palm }, gap \in { Open, Pinched }, off \in { Still, Moved } }

TwoHands ==
    { << MakeHand(Point, Open, Still), Second(dx) >> : dx \in { 800, 802, 1000 } }

\* a hand detected without its ring finger tip
Partial == [ MakeHand(Point, Open, Still) EXCEPT ![16] = Null ]

FrameResults == { <<>> } \cup OneHand \cup TwoHands \cup { << Partial >> }

FrameSteps == { 200, 2000 }

-----------------------------------------------------------------------------
(* Specifications *)

NoHistory ==
    /\ clickAt = None
    /\ resetAt = None
    /\ resetGap = None
    /\ seg = [phase |-> "none", clicks |-> 0]
    /\ frame = [ready |-> FALSE, results |-> <<>>, prev |-> Null]

\* the component as constructed (lines 10-25)
Init ==
    /\ handLandmarker = FALSE
    /\ cameraActive = FALSE
    /\ loading = TRUE
    /\ status = "IDLE"
    /\ activeGesture = ""
    /\ lastLandmark = Null
    /\ smoothedPos = << 0, 0 >>
    /\ lastPinchDist = Null
    /\ requestRef = 0
    /\ isTapped = FALSE
    /\ lastClickTime = 0
    /\ lastResetTime = 0
    /\ mounted = TRUE
    /\ initDone = FALSE
    /\ pendingGUM = 0
    /\ streams = <<>>
    /\ srcObject = 0
    /\ metadataPending = FALSE
    /\ pendingFrames = {}
    /\ nextId = 1
    /\ now = Epoch
    /\ step = "init"
    /\ emitted = <<>>
    /\ sinkCalls = <<>>
    /\ errors = 0
    /\ NoHistory
    /\ ExplorerInit

Next ==
    \/ initMediaPipe
    \/ initMediaPipeFailed
    \/ unmount
    \/ toggleCamera
    \/ getUserMediaResolved
    \/ getUserMediaRejected
    \/ onloadedmetadata
    \/ \E id \in pendingFrames, ready \in BOOLEAN, results \in LifeResults, dt \in LifeSteps :
          \E viewer \in BOOLEAN : processFrame(id, ready, results, dt, viewer, MaxReq)
    \/ \E id \in pendingFrames : processFrameDetached(id)

Spec == Init /\ [][Next]_vars

\* the component after initMediaPipe, one toggleCamera, getUserMedia and
\* onloadedmetadata: the first frame callback is scheduled
InitActive ==
    /\ handLandmarker = TRUE
    /\ cameraActive = TRUE
    /\ loading = FALSE
    /\ status = "IDLE"
    /\ activeGesture = ""
    /\ lastLandmark = Null
    /\ smoothedPos = << 0, 0 >>
    /\ lastPinchDist = Null
    /\ requestRef = 1
    /\ isTapped = FALSE
    /\ lastClickTime = 0
    /\ lastResetTime = 0
    /\ mounted = TRUE
    /\ initDone = TRUE
    /\ pendingGUM = 0
    /\ streams = << TRUE >>
    /\ srcObject = 1
    /\ metadataPending = FALSE
    /\ pendingFrames = {1}
    /\ nextId = 2
    /\ now = Epoch
    /\ step = "onloadedmetadata"
    /\ emitted = <<>>
    /\ sinkCalls = <<>>
    /\ errors = 0
    /\ NoHistory
    /\ ExplorerInit

NextFrames ==
    \E id \in pendingFrames, results \in FrameResults, dt \in FrameSteps :
        processFrame(id, TRUE, results, dt, TRUE, MaxReq)

SpecFrames == InitActive /\ [][NextFrames]_vars

\* one hand opening and closing its pinch, with tracking gaps
ClickResults ==
    { <<>> } \cup { << MakeHand(Point, gap, Still) >> : gap \in { Open, Between, Pinched } }

NextClick ==
    \E id \in pendingFrames, results \in ClickResults, dt \in { 200 } :
        processFrame(id, TRUE, results, dt, TRUE, MaxClickReq)

SpecClick == InitActive /\ [][NextClick]_vars

\* one pointing hand seen at positions along a line, so that the index tip
\* moves by equal or unequal displacements from frame to frame; one position
\* apart is inside the deadzone on both axes
ShiftUnit == << DEADZONE - 10, DEADZONE \div 2 - DEADZONE >>

SmoothResults ==
    { << MakeHand(Point, Open, << k * ShiftUnit[1], k * ShiftUnit[2] >>) >> : k \in 0..MaxShift }

NextSmooth ==
    \E id \in pendingFrames, results \in SmoothResults, dt \in LifeSteps :
        processFrame(id, TRUE, results, dt, TRUE, MaxSmoothReq)

SpecSmooth == InitActive /\ [][NextSmooth]_vars

\* hands that make every gesture, displaced by nothing, by less than the
\* deadzone on both axes, on one axis only, or by more on both
AxisShifts ==
    { Still, Nudged, << DEADZONE - 10, DEADZONE + 10 >>, << DEADZONE + 10, 0 - DEADZONE >> }

AxisResults ==
    { << MakeHand(ext, gap, off) >> :
        ext \in { Point, Peace, Palm }, gap \in { Open, Pinched }, off \in AxisShifts }
    \cup { << MakeHand(Point, Open, Still), Second(dx) >> : dx \in { 800, 1000 } }

NextAxis ==
    \E id \in pendingFrames, results \in AxisResults, dt \in LifeSteps :
        processFrame(id, TRUE, results, dt, TRUE, MaxAxisReq)

SpecAxis == InitActive /\ [][NextAxis]_vars

\* two hands whose index tips drift apart by 0.0002 a frame or jump to 0.1,
\* with frames of one hand (pointing, pinching or an open palm) and of no
\* hand in between
PinchResults ==
    { <<>> }
    \cup { << MakeHand(Point, Open, Still) >>, << MakeHand(Point, Pinched, Still) >>,
           << MakeHand(Palm, Open, Still) >> }
    \cup { << MakeHand(Point, Open, Still), Second(dx) >> : dx \in { 800, 802, 804, 1000 } }

NextPinch ==
    \E id \in pendingFrames, results \in PinchResults, dt \in LifeSteps :
        processFrame(id, TRUE, results, dt, TRUE, MaxPinchReq)

SpecPinch == InitActive /\ [][NextPinch]_vars

\* the Explorer page: the input changes while earlier calls are in flight
NextExplorer ==
    \/ \E v \in Proteins, fresh \in BOOLEAN : setInput(v, fresh)
    \/ \E i \in 1..Len(runs), outcome \in { "found", "not found", "search failed", "threw" } :
          searchDone(i, outcome)
    \/ \E i \in 1..Len(runs), outcome \in { "ok", "bad", "threw" } : metaDone(i, outcome)
    \/ \E i \in 1..Len(runs), outcome \in { "ok", "no structure", "corrupt", "threw" } :
          pdbDone(i, outcome)

SpecExplorer == Init /\ [][NextExplorer]_vars

\* one or two hands, the first one pointing, showing two fingers or an open
\* palm, pinching or not
OrderHands ==
    { MakeHand(ext, gap, Still) : ext \in { Point, Peace, Palm }, gap \in { Open, Pinched } }

OrderResults ==
    { << h >> : h \in OrderHands }
    \cup { << h, Second(dx) >> : h \in OrderHands, dx \in { 800, 1000 } }

NextOrder ==
    \E id \in pendingFrames, results \in OrderResults, dt \in FrameSteps :
        processFrame(id, TRUE, results, dt, TRUE, MaxOrderReq)

SpecOrder == InitActive /\ [][NextOrder]_vars

\* a closed hand whose index finger points straight up from the wrist, the
\* last knuckle 0.2 and the tip 0.2 * 1.1 + more away from it
Upright(more) ==
    LET h == MakeHand({}, Open, Still)
    IN  [ h EXCEPT ![7] = << h[WRIST][1], h[WRIST][2] - 2000 >>,
                   ![8] = << h[WRIST][1], h[WRIST][2] - 2200 - more >> ]

\* one hand with every combination of stretched and curled fingers, and the
\* index finger at and just past the margin
FingerResults ==
    { << MakeHand(ext, Open, off) >> : ext \in SUBSET Fingers, off \in { Still, Moved } }
    \cup { << Upright(more) >> : more \in { 0, 1 } }

NextFingers ==
    \E id \in pendingFrames, results \in FingerResults, dt \in LifeSteps :
        processFrame(id, TRUE, results, dt, TRUE, MaxFingerReq)

SpecFingers == InitActive /\ [][NextFingers]_vars

-----------------------------------------------------------------------------
(* Properties *)

\* the last step was a frame in which detectForVideo ran
Detected == step = "processFrame" /\ frame.ready

Movement == {"rotate", "pan", "zoom"}

Moves(evs) == { i \in 1..Len(evs) : evs[i].type \in Movement }

\* the last step was the stop branch of toggleCamera
StopReturned == step = "toggleCamera" /\ emitted = << Ev("null", Null) >>

\* C1: a processed frame emits at most one gesture event; in particular
\* never Click together with Reset, Rotate, Pan or Zoom.
C1_AtMostOneEvent == Detected => Len(emitted) <= 1

\* the viewer method the interface prescribes for an event
sinkOf(ev) ==
    CASE ev.type = "rotate" -> << Call("rotate", << Num(ev.data.x), Num(ev.data.y) >>) >>
      [] ev.type = "pan" -> << Call("pan", << Num(ev.data.x), Num(ev.data.y) >>) >>
      [] ev.type = "zoom" -> << Call("zoom", << Num(ev.data) >>) >>
      [] ev.type = "reset" -> << Call("reset", <<>>) >>
      [] ev.type = "click" -> << Call("pick", << Num(ev.data.x), Num(ev.data.y) >>) >>
      [] OTHER -> <<>>

RECURSIVE sinkOfAll(_)
sinkOfAll(evs) == IF evs = <<>> THEN <<>> ELSE sinkOf(Head(evs)) \o sinkOfAll(Tail(evs))

\* C2: every emitted event reaches the viewer as the matching method with
\* the event's own payload (Zoom(delta) as zoom(delta)); null invokes nothing.
C2_BridgeMatches == sinkCalls = sinkOfAll(emitted)

\* C3: a pinch that closes below CLICK_THRESHOLD once, after the hand was
\* seen open, and reopens above CLICK_RELEASE has emitted exactly one Click.
C3_ExactlyOneClick == seg.phase = "back" => seg.clicks = 1

\* C4: two Resets are at least RESET_COOLDOWN apart, and a frame emits at
\* most one.
C4_ResetsSpaced ==
    /\ resetGap # None => resetGap >= RESET_COOLDOWN
    /\ Count(emitted, "reset") <= 1

\* a second Reset was emitted, after an open-palm frame that emitted none
C4_Witness ==
    /\ Detected
    /\ resetGap # None
    /\ Count(emitted, "reset") = 1

\* the frame shows one hand with the index stretched and the middle curled,
\* or the index and middle stretched and the ring curled
OneFinger(lms) == indexOut(lms) /\ ~middleOut(lms)
TwoFinger(lms) == indexOut(lms) /\ middleOut(lms) /\ ~ringOut(lms)

\* C5: a frame less than CLICK_LOCKOUT after the latest Click emits no
\* Rotate, Pan or Zoom; a one-hand frame CLICK_LOCKOUT or more after it,
\* with a previous index-tip position, emits Rotate for one finger and Pan
\* for two.
C5_ClickLockout ==
    (Detected /\ clickAt # None) =>
        /\ now - clickAt < CLICK_LOCKOUT => Moves(emitted) = {}
        /\ ( /\ now - clickAt >= CLICK_LOCKOUT
             /\ Len(frame.results) = 1
             /\ frame.prev # Null ) =>
               /\ OneFinger(frame.results[1]) => Count(emitted, "rotate") = 1
               /\ TwoFinger(frame.results[1]) => Count(emitted, "pan") = 1

\* a one-finger frame 200 ms after a Click emitted nothing
C5_Witness ==
    /\ Detected
    /\ clickAt # None
    /\ now - clickAt = 200
    /\ Len(frame.results) = 1
    /\ frame.prev # Null
    /\ OneFinger(frame.results[1])
    /\ ~tapEngaged(frame.results[1])
    /\ emitted = <<>>

\* C6: a frame with no hand leaves lastLandmark and lastPinchDist empty and
\* activeGesture cleared, and emits nothing.
C6_TrackingLoss ==
    (Detected /\ Len(frame.results) = 0) =>
        /\ lastLandmark = Null
        /\ lastPinchDist = Null
        /\ activeGesture = ""
        /\ emitted = <<>>
        /\ sinkCalls = <<>>

\* a frame with no hand, processed while a fingertip position was held
C6_Witness ==
    /\ Detected
    /\ Len(frame.results) = 0
    /\ frame.prev # Null
    /\ lastLandmark = Null

\* C7: after a frame with no hand the smoothed velocity is (0, 0).
C7_VelocityCleared == (Detected /\ Len(frame.results) = 0) => smoothedPos = << 0, 0 >>

\* C8: when the stop branch of toggleCamera returns, no frame callback is
\* left scheduled.
C8_NoFrameAfterStop == StopReturned => pendingFrames = {}

\* C9: when the stop branch of toggleCamera returns, every stream acquired
\* so far has its tracks stopped.
C9_TracksReleased == StopReturned => \A i \in 1..Len(streams) : ~streams[i]

Fresh ==
    /\ lastLandmark = Null
    /\ smoothedPos = << 0, 0 >>
    /\ lastPinchDist = Null
    /\ ~isTapped

\* C10: whenever cameraActive turns true the interpreter state is at its
\* initial values.
C10_FreshOnActive == [][(~cameraActive /\ cameraActive') => Fresh']_vars

\* C11: when getUserMedia rejects (permission denied, no device) the camera
\* stays as it was (inactive when the start came from Idle), no animation
\* frame is requested, the refs of the interpreter, the status and the active
\* gesture keep their values, onGesture is not called, and exactly one error
\* is reported.
C11_DeniedStaysIdle ==
    [][ step' = "getUserMediaRejected" =>
          /\ cameraActive' = cameraActive
          /\ pendingFrames' = pendingFrames
          /\ requestRef' = requestRef
          /\ interp' = interp
          /\ status' = status
          /\ activeGesture' = activeGesture
          /\ emitted' = <<>>
          /\ errors' = errors + 1 ]_vars

\* the only start was refused: still idle, nothing scheduled, one report
C11_Witness ==
    /\ step = "getUserMediaRejected"
    /\ ~cameraActive
    /\ status = "IDLE"
    /\ pendingFrames = {}
    /\ Len(streams) = 0
    /\ pendingGUM = 0
    /\ errors = 1

\* C12: at every moment at most one animation frame callback of processFrame
\* is requested, whatever the sequence of toggles, permission outcomes and
\* loadedmetadata events.
C12_SingleLoop == Cardinality(pendingFrames) <= 1

\* the last frame handed to processFrame showed a first hand with a landmark
\* missing
PartialFrame ==
    /\ step \in {"processFrame", "processFrameThrew"}
    /\ frame.ready
    /\ Len(frame.results) > 0
    /\ ~Complete(frame.results[1])

\* C13: a frame whose detected hand lacks a landmark is processed to the end:
\* processFrame returns normally, nothing is emitted and the next animation
\* frame is requested; no error leaves the step.
C13_PartialFailsClosed ==
    PartialFrame => (step = "processFrame" /\ emitted = <<>> /\ pendingFrames # {})

\* C14: a zero-hand frame that directly follows a zero-hand frame changes
\* nothing: the refs, the status and the active gesture are what the first
\* one left, and onGesture is not called.
C14_LossIdempotent ==
    [][ ( /\ Detected /\ Len(frame.results) = 0
          /\ step' = "processFrame" /\ frame'.ready /\ Len(frame'.results) = 0 )
        => ( /\ interp' = interp
             /\ status' = status
             /\ activeGesture' = activeGesture
             /\ emitted = <<>>
             /\ emitted' = <<>> ) ]_vars

\* a second zero-hand frame in a row, reached with a smoothed velocity left
\* by earlier hand frames
C14_Witness ==
    /\ Detected
    /\ Len(frame.results) = 0
    /\ frame.prev = Null
    /\ smoothedPos # << 0, 0 >>
    /\ lastLandmark = Null
    /\ lastPinchDist = Null
    /\ status = "NOT_FOUND"

\* v moved from s to s2 without leaving the side of target it was on and
\* without moving away from it
Toward(s, s2, target) ==
    /\ s <= target => (s <= s2 /\ s2 <= target)
    /\ s >= target => (target <= s2 /\ s2 <= s)

\* the displacement of the index tip in the last frame, when it had one
RawOfFrame == << frame.results[1][8][1] - frame.prev[1],
                 frame.results[1][8][2] - frame.prev[2] >>

\* a frame step whose raw displacement d equals that of the frame before
ConstStep(d) ==
    /\ Detected /\ Len(frame.results) > 0 /\ frame.prev # Null
    /\ step' = "processFrame" /\ frame'.ready /\ Len(frame'.results) > 0
    /\ RawOfFrame = d
    /\ RawOfFrame' = d

Displacements ==
    { << k * ShiftUnit[1], k * ShiftUnit[2] >> : k \in (0 - MaxShift - 1)..(MaxShift + 1) }

\* C15 as stated: when the raw displacement d of the index tip repeats from
\* one frame to the next, each axis of smoothedPos moves toward d and does
\* not pass it.
C15_TowardRaw ==
    [][ \A d \in Displacements : ConstStep(d) =>
          \A a \in 1..2 : Toward(smoothedPos[a], smoothedPos'[a], d[a] * 1000) ]_vars

\* C15 amended: when the raw displacement d repeats, each axis of smoothedPos
\* moves toward the displacement after the deadzone (d when |d| >= DEADZONE,
\* otherwise 0) and does not pass it.
C15_TowardClamped ==
    [][ \A d \in Displacements : ConstStep(d) =>
          \A a \in 1..2 : Toward(smoothedPos[a], smoothedPos'[a], Deadzone(d[a]) * 1000) ]_vars

\* the second frame in a row with the same displacement, outside the deadzone
\* on both axes: smoothedPos is strictly between its first value and d
C15_Witness ==
    /\ Detected /\ Len(frame.results) > 0 /\ frame.prev # Null
    /\ Abs(RawOfFrame[1]) >= DEADZONE
    /\ Abs(RawOfFrame[2]) >= DEADZONE
    /\ \A a \in 1..2 :
          /\ smoothedPos[a] = Smooth(RawOfFrame[a], Smooth(RawOfFrame[a], 0))
          /\ Abs(smoothedPos[a]) > Abs(Smooth(RawOfFrame[a], 0))
          /\ Abs(smoothedPos[a]) < Abs(RawOfFrame[a]) * 1000

\* no Click was emitted in the last frame and the lockout of the latest
\* Click is over
NoClickRule ==
    /\ Count(emitted, "click") = 0
    /\ clickAt = None \/ now - clickAt >= CLICK_LOCKOUT

\* C16: a frame with one hand, index and middle stretched and ring curled,
\* in which neither Click nor Reset nor the lockout applies, emits exactly
\* Pan(-sx * GAIN * 1.5, sy * GAIN * 1.5) for the smoothed velocity (sx, sy).
C16_PanEmitted ==
    ( /\ Detected
      /\ Len(frame.results) = 1
      /\ TwoFinger(frame.results[1])
      /\ ~isPalm(frame.results[1])
      /\ NoClickRule )
    => emitted = << Ev("pan", [ x |-> (0 - smoothedPos[1]) * GAIN * PAN_TENTHS,
                               y |-> smoothedPos[2] * GAIN * PAN_TENTHS ]) >>

\* the distance between the index tips of the two hands of a frame
TipDistance(results) ==
    hypot(results[1][8][1] - results[2][8][1], results[1][8][2] - results[2][8][2])

\* C17: a frame with two hands in which neither Click, Reset nor the lockout
\* applies emits Zoom((distance - lastPinchDist) * 20) when a previous pinch
\* distance exists and the absolute value of that delta exceeds 0.005, and
\* emits nothing otherwise: when the delta is within 0.005 or there is no
\* previous pinch distance.
C17_ZoomRule ==
    [][ ( /\ step' = "processFrame" /\ frame'.ready
          /\ Len(frame'.results) = 2
          /\ ~isPalm(frame'.results[1])
          /\ NoClickRule' )
        => IF lastPinchDist # Null
           THEN LET delta == (TipDistance(frame'.results) - lastPinchDist[1]) * ZOOM_GAIN
                IN  emitted' = IF Abs(delta) > ZOOM_MIN THEN << Ev("zoom", delta) >> ELSE <<>>
           ELSE emitted' = <<>> ]_vars

\* two hands whose index tips went from 0.08 to 0.10 apart: Zoom(0.4)
C17_Witness ==
    /\ Detected
    /\ Len(frame.results) = 2
    /\ TipDistance(frame.results) = 1000
    /\ lastPinchDist = << 1000 >>
    /\ emitted = << Ev("zoom", 200 * ZOOM_GAIN) >>

\* the step taken is a frame in which detectForVideo returned a hand and
\* processFrame ran to its end
HandStep == step' = "processFrame" /\ frame'.ready /\ Len(frame'.results) >= 1

\* C18: in every frame with a hand, the first one after tracking is acquired
\* included, a pinch below CLICK_THRESHOLD with isTapped unset emits one
\* Click at the frame's index tip, sets isTapped and sets lastClickTime to
\* the frame's time; a pinch above CLICK_RELEASE unsets isTapped.
C18_ClickOnAnyFrame ==
    [][ HandStep =>
          LET lms == frame'.results[1]
          IN  /\ (tapEngaged(lms) /\ ~isTapped) =>
                    /\ Count(emitted', "click") = 1
                    /\ emitted'[1] = Ev("click", [x |-> lms[8][1], y |-> lms[8][2]])
                    /\ isTapped'
                    /\ lastClickTime' = now'
              /\ tapReleased(lms) => ~isTapped' ]_vars

\* C19: in every frame with a hand whose four fingers are stretched, Reset
\* is emitted and lastResetTime set to the frame's time when no Reset was
\* emitted before or RESET_COOLDOWN or more has passed since the latest one
\* (2000 ms included); otherwise nothing is emitted and lastResetTime keeps
\* its value.
C19_ResetAtCooldown ==
    [][ (HandStep /\ isPalm(frame'.results[1])) =>
          IF resetAt = None \/ now' - resetAt >= RESET_COOLDOWN
          THEN Count(emitted', "reset") = 1 /\ lastResetTime' = now'
          ELSE emitted' = <<>> /\ lastResetTime' = lastResetTime ]_vars

\* no camera stream is active, requested or waiting for its metadata
Idle == ~cameraActive /\ pendingGUM = 0 /\ ~metadataPending

\* C20: an animation frame callback that runs while the controller is idle
\* calls no onGesture, leaves the refs, the status and the active gesture as
\* they are and requests no further animation frame.
C20_IdleCallbackNoOp ==
    [][ (Idle /\ step' \in {"processFrame", "processFrameThrew", "processFrameDetached"}) =>
          /\ emitted' = <<>>
          /\ interp' = interp
          /\ status' = status
          /\ activeGesture' = activeGesture
          /\ pendingFrames' \subseteq pendingFrames ]_vars

\* C21: while there is no hand landmarker, and so for ever once
\* initMediaPipe has failed, no camera is requested and no frame callback is
\* scheduled whatever is pressed, the camera stays inactive, and a failed
\* initialisation is not tried again.
C21_Unavailable ==
    /\ [] ( ~handLandmarker =>
              /\ ~cameraActive
              /\ pendingGUM = 0
              /\ streams = <<>>
              /\ ~metadataPending
              /\ pendingFrames = {} )
    /\ [][ (initDone /\ ~handLandmarker) => (initDone' /\ ~handLandmarker') ]_vars

\* the toggle was pressed after initMediaPipe had failed, and nothing started
C21_Witness ==
    /\ step = "toggleCamera"
    /\ mounted
    /\ initDone
    /\ ~handLandmarker
    /\ ~loading
    /\ errors = 1
    /\ ~cameraActive
    /\ pendingGUM = 0
    /\ pendingFrames = {}

\* C22: a frame emits Rotate only when the index is the one finger stretched:
\* middle, ring and pinky are all curled.
C22_RotateOneFinger ==
    (Detected /\ Count(emitted, "rotate") > 0) =>
        /\ Len(frame.results) >= 1
        /\ indexOut(frame.results[1])
        /\ ~middleOut(frame.results[1])
        /\ ~ringOut(frame.results[1])
        /\ ~pinkyOut(frame.results[1])

\* the last frame fell inside the lockout of the latest Click
InLockout == clickAt # None /\ now - clickAt < CLICK_LOCKOUT

\* C23: a frame whose first hand is an open palm emits no Zoom, Pan or
\* Rotate, whether or not the cooldown has passed and whether one or two
\* hands are seen; a frame with two hands emits no Pan and no Rotate; and an
\* open palm inside the click lockout, with a previous index-tip position,
\* still emits Reset unless the latest Reset is within the cooldown.
C23_RuleOrder ==
    (Detected /\ Len(frame.results) >= 1) =>
        /\ isPalm(frame.results[1]) => Moves(emitted) = {}
        /\ Len(frame.results) = 2 =>
              (Count(emitted, "pan") = 0 /\ Count(emitted, "rotate") = 0)
        /\ (isPalm(frame.results[1]) /\ frame.prev # Null /\ InLockout) =>
              \/ Count(emitted, "reset") = 1
              \/ resetAt # None /\ now - resetAt <= RESET_COOLDOWN

\* two hands, the first an open palm, 200 ms after a Click: Reset and
\* nothing else
C23_Witness ==
    /\ Detected
    /\ Len(frame.results) = 2
    /\ isPalm(frame.results[1])
    /\ ~tapEngaged(frame.results[1])
    /\ clickAt # None
    /\ now - clickAt = 200
    /\ emitted = << Ev("reset", Null) >>

\* the tip t of hand lms is more than 1.1 times as far from the wrist as the
\* joint d, both distances Euclidean
Farther(lms, t, d) == 100 * Dist2(lms[t], lms[0]) > 121 * Dist2(lms[d], lms[0])

AllFarther(lms) ==
    Farther(lms, 8, 7) /\ Farther(lms, 12, 11) /\ Farther(lms, 16, 15) /\ Farther(lms, 20, 19)

\* C24: in a processed frame each finger flag is the strict comparison
\* distance(tip, wrist) > 1.1 * distance(joint, wrist) on the pairs (8,7),
\* (12,11), (16,15), (20,19), and the palm flag is their conjunction; the
\* events follow the flags: Reset only with all four fingers out, Pan and
\* Rotate only with the index out.
C24_ExtendedRule ==
    (Detected /\ Len(frame.results) >= 1) =>
        LET lms == frame.results[1]
        IN  /\ indexOut(lms) <=> Farther(lms, 8, 7)
            /\ middleOut(lms) <=> Farther(lms, 12, 11)
            /\ ringOut(lms) <=> Farther(lms, 16, 15)
            /\ pinkyOut(lms) <=> Farther(lms, 20, 19)
            /\ isPalm(lms) <=> AllFarther(lms)
            /\ Count(emitted, "reset") > 0 => AllFarther(lms)
            /\ (Count(emitted, "pan") > 0 \/ Count(emitted, "rotate") > 0)
                  => Farther(lms, 8, 7)

\* the index tip exactly 1.1 times as far from the wrist as its last joint:
\* not extended, nothing emitted
C24_Witness ==
    /\ Detected
    /\ Len(frame.results) = 1
    /\ frame.prev # Null
    /\ 100 * Dist2(frame.results[1][8], frame.results[1][0])
         = 121 * Dist2(frame.results[1][7], frame.results[1][0])
    /\ ~Farther(frame.results[1], 8, 7)
    /\ emitted = <<>>

\* C25: in every frame with a hand and a previous index-tip position, on
\* each axis by itself, the raw displacement is replaced by 0 when its
\* magnitude is below DEADZONE and smoothedPos becomes
\* ALPHA * d + (1 - ALPHA) * smoothedPos, whatever the frame emits.
C25_DeadzoneThenSmooth ==
    [][ (HandStep /\ lastLandmark # Null) =>
          \A a \in 1..2 :
              LET raw == frame'.results[1][8][a] - lastLandmark[a]
                  d == IF Abs(raw) < DEADZONE THEN 0 ELSE raw
              IN  smoothedPos'[a]
                    = (ALPHA_TENTHS * d * 1000 + (10 - ALPHA_TENTHS) * smoothedPos[a]) \div 10 ]_vars

\* an open palm that emitted Reset while its index tip moved by less than
\* the deadzone on x and by more on y: x stayed at 0, y took 0.4 of the move
C25_Witness ==
    /\ Detected /\ Len(frame.results) = 1 /\ frame.prev # Null
    /\ RawOfFrame[1] # 0
    /\ Abs(RawOfFrame[1]) < DEADZONE
    /\ Abs(RawOfFrame[2]) >= DEADZONE
    /\ smoothedPos[1] = 0
    /\ smoothedPos[2] * 10 = ALPHA_TENTHS * RawOfFrame[2] * 1000
    /\ Count(emitted, "reset") = 1

\* the zoom rule was evaluated in the last frame: two hands, a previous
\* index-tip position, no open palm, no lockout
ZoomEvaluated ==
    /\ Detected
    /\ Len(frame.results) = 2
    /\ frame.prev # Null
    /\ ~isPalm(frame.results[1])
    /\ NoClickRule

\* C26: every frame in which the zoom rule is evaluated leaves lastPinchDist
\* at the frame's distance between the two index tips, whether or not it
\* emitted Zoom; so when the rule is evaluated in two frames in a row, the
\* second emits Zoom exactly when the distance changed by more than the
\* threshold between these two frames.
C26_PinchDistTracked ==
    [][ ZoomEvaluated' =>
          /\ lastPinchDist' = << TipDistance(frame'.results) >>
          /\ ZoomEvaluated =>
                ( Count(emitted', "zoom") > 0
                  <=> Abs(TipDistance(frame'.results) - TipDistance(frame.results)) * ZOOM_GAIN
                        > ZOOM_MIN ) ]_vars

\* the index tips 0.0804 apart after a frame that emitted no Zoom, four
\* frames into the run: the distance was recorded all the same
C26_Witness ==
    /\ ZoomEvaluated
    /\ TipDistance(frame.results) = 804
    /\ lastPinchDist = << 804 >>
    /\ emitted = <<>>
    /\ nextId = MaxPinchReq + 1

\* C28: a frame emits Zoom only when the frame processed just before it
\* evaluated the zoom rule, and its delta is the change of the distance
\* between the two index tips from that frame to this one.
C28_ZoomFromPreviousFrame ==
    [][ (step' = "processFrame" /\ Count(emitted', "zoom") > 0) =>
          /\ step = "processFrame"
          /\ ZoomEvaluated
          /\ emitted' = << Ev("zoom", (TipDistance(frame'.results) - TipDistance(frame.results))
                                        * ZOOM_GAIN) >> ]_vars

\* C27: while the camera is shown as active and the controller is mounted,
\* a call of processFrame ends with the next animation frame requested.
C27_LoopKeepsRunning ==
    (cameraActive /\ mounted /\ step \in {"processFrame", "processFrameThrew"})
        => pendingFrames # {}

\* C29: when the controller is unmounted with the camera active, the effect's
\* cleanup leaves no requested animation frame and no stream with live
\* tracks.
C29_UnmountReleases ==
    (step = "unmount" /\ cameraActive) =>
        /\ pendingFrames = {}
        /\ \A i \in 1..Len(streams) : ~streams[i]

\* every call of resolveAndFetch has ended
AllDone == \A i \in 1..Len(runs) : runs[i].pc = "done"

\* C30: once every call of resolveAndFetch has ended, the page shows what
\* the call for the latest input stored: its structure, metadata, resolved
\* id and error, with both loading flags down.
C30_LatestInputWins ==
    (Len(runs) >= 2 /\ AllDone) =>
        LET last == runs[Len(runs)]
        IN  /\ last.input = input
            /\ pdbData = last.shown.pdbData
            /\ metadata = last.shown.metadata
            /\ resolvedId = last.shown.resolvedId
            /\ error = last.shown.error
            /\ ~metaLoading
            /\ ~pdbLoading

=============================================================================
